---- MODULE Spec2Model ----
(***************************************************************************)
(* Model of IOSBuilder (src/src/commands/build/IOSBuilder.js): the iOS     *)
(* build command's workflow run() and its credential collection and        *)
(* validation steps.  One run of the command is one behaviour; every await *)
(* of the code is one action, and every collaborator call, prompt and file *)
(* access is recorded in the history variable log.                         *)
(***************************************************************************)
EXTENDS Integers, Sequences, FiniteSets, TLC

\* The number of times the operator may give an input its validator rejects.
MaxReprompts == 1

Kinds == {"appleId", "cert", "push"}

\* ---------------------------------------------------------------- errors
NoError == [type |-> "none", code |-> "none", message |-> "none", isXDLError |-> FALSE]

XDLError(code, message) ==
  [type |-> "XDLError", code |-> code, message |-> message, isXDLError |-> TRUE]

CommandError(code, message) ==
  [type |-> "CommandError", code |-> code, message |-> message, isXDLError |-> FALSE]

\* What a collaborator call can end in: a normal return, a failure the
\* Platform Service classified (an XDLError), or any other exception.
Outcomes == {"ok", "classified", "unclassified"}

ServiceError == XDLError("SERVICE_CODE", "service message")
NetworkFault ==
  [type |-> "Error", code |-> "none", message |-> "network fault", isXDLError |-> FALSE]
FileFault ==
  [type |-> "Error", code |-> "none", message |-> "file read fault", isXDLError |-> FALSE]

Thrown(outcome) == IF outcome = "classified" THEN ServiceError ELSE NetworkFault

MsgNoBundleIdentifier == "Your project must have a bundleIdentifier set in exp.json."
MsgStoredCredentials == "Stored credentials are invalid! Rerun this command with -c"
MsgStoredCertificate == "Stored certificate is invalid! Rerun this command with -c"
MsgStoredPush == "Stored push certificate is invalid! Rerun this command with -c"
MsgAppId == "It seems like we can't create an app on the Apple developer center with this app id"
MsgCertNotInPortal == "Oops! This certificate doesn't seem to be present in your developer portal."
MsgPushNotInPortal == "Oops! This push certificate doesn't seem to be present in your developer portal."
MsgFailedFetching == "Failed fetching/uploading certificates."

\* ----------------------------------------------------- the local file system
\* A path is the sequence of its components; "/" and "~" are leading markers.
Home == <<"/", "home">>
Cwd == <<"/", "cwd">>
Files == {<<"/", "home", "dist.p12">>}
Dirs == {Home, Cwd}
\* What the operator may type at a path question.
TypedPaths ==
  {<<"~", "dist.p12">>, <<"/", "home", "dist.p12">>, <<"~">>, <<"dist.p12">>}

untildify(p) == IF Len(p) > 0 /\ Head(p) = "~" THEN Home \o Tail(p) ELSE p
isAbsolute(p) == Len(p) > 0 /\ Head(p) = "/"
resolve(p) == IF isAbsolute(p) THEN p ELSE Cwd \o p

\* filter: of the pathToP12 question
filterP12Path(p12Path) ==
  LET p == untildify(p12Path)
  IN IF ~isAbsolute(p) THEN resolve(p) ELSE p

\* validate: that returns true as soon as fs.stat succeeds
validateP12Path_NoIsFile(p12Path) == p12Path \in Files \cup Dirs

\* validate: of the pathToP12 question: fs.stat throws for a missing path
\* (caught, false); otherwise stats.isFile().
validateP12Path(p12Path) ==
  IF p12Path \in Files \cup Dirs THEN p12Path \in Files ELSE FALSE

\* validate: val => val !== '' of the three Apple ID questions
validateNonEmpty(val) == val # ""

AppleIdQuestions == <<"appleId", "password", "teamId">>

\* p12Data.toString('base64') of the bytes of the file at a path
FileData(p) == <<"bytes of">> \o p
Base64(data) == <<"base64">> \o data

NullCredentials == [null |-> TRUE]

VARIABLES
  pc,                  \* the await the run stands at, or "done" / "failed"
  clearCredentials,    \* this.options.clearCredentials
  bundleIdentifier,    \* TRUE iff exp.json sets a bundle identifier
  remote,              \* the Platform Service's stored bundle, field by kind
  remoteExists,        \* whether the service holds a bundle for the metadata
  existingCredentials, \* what credentialsExistForPlatformAsync returned
  has,                 \* hasAppleId, hasCert, hasPushCert
  question,            \* index of the Apple ID question being asked
  answers,             \* inquirer's answers of the flow in progress
  credentials,         \* the candidate bundle of the flow in progress
  isValid,             \* askForPushCerts' isValid: "unset", "true", "false"
  publishedExpIds,     \* what publish() returned
  raised,              \* the last error a collaborator threw
  error,               \* the error run() rejected with
  reprompts,           \* rejected inputs so far
  log                  \* history of calls, prompts and file accesses

vars == <<pc, clearCredentials, bundleIdentifier, remote, remoteExists,
          existingCredentials, has, question, answers, credentials, isValid,
          publishedExpIds, raised, error, reprompts, log>>

NoAnswers == [manage |-> "unset", pathToP12 |-> <<>>, password |-> "unset",
              appleId |-> "unset", teamId |-> "unset"]

Event(op, kind, cand, res) == [op |-> op, kind |-> kind, cand |-> cand, res |-> res]

Record(op, kind, cand, res) == log' = Append(log, Event(op, kind, cand, res))

\* The run rejects with e.
Fail(e) == /\ pc' = "failed"
           /\ error' = e

Init ==
  /\ pc = "checkPackagerStatus"
  /\ clearCredentials \in BOOLEAN
  /\ bundleIdentifier \in BOOLEAN
  /\ remoteExists \in BOOLEAN
  /\ remote \in [Kinds -> {"absent", "stored"}]
  /\ (~remoteExists => \A k \in Kinds : remote[k] = "absent")
  /\ existingCredentials = [fetched |-> FALSE, null |-> TRUE, appleId |-> FALSE,
                            cert |-> FALSE, push |-> FALSE]
  /\ has = [k \in Kinds |-> FALSE]
  /\ question = 0
  /\ answers = NoAnswers
  /\ credentials = NullCredentials
  /\ isValid = "unset"
  /\ publishedExpIds = <<>>
  /\ raised = NoError
  /\ error = NoError
  /\ reprompts = 0
  /\ log = <<>>

inputs == <<clearCredentials, bundleIdentifier>>
store == <<remote, remoteExists>>
fetched == <<existingCredentials, has>>
flow == <<question, answers, credentials, isValid>>

\* The awaited call returned: go on with the statement after it.
Continue(next) == /\ pc' = next
                  /\ UNCHANGED <<raised, error>>

\* The awaited call threw e, and the run rejects with final.
Throw(e, final) == /\ raised' = e
                   /\ Fail(final)

CanReprompt == reprompts < MaxReprompts

\* ------------------------------------------------------------------ run()
\* await this.checkPackagerStatus()
CheckPackagerStatus ==
  /\ pc = "checkPackagerStatus"
  /\ \E o \in {"ok", "unclassified"} :
       /\ Record("checkPackagerStatus", "none", NullCredentials, o)
       /\ IF o = "ok" THEN Continue("checkStatus") ELSE Throw(Thrown(o), Thrown(o))
  /\ UNCHANGED <<inputs, store, fetched, flow, publishedExpIds, reprompts>>

\* await this.checkStatus(): "Check for active builds -- only one build per
\* user/experience can happen at once", a query of the Platform Service.
CheckStatus ==
  /\ pc = "checkStatus"
  /\ \E o \in Outcomes :
       /\ Record("checkStatus", "none", NullCredentials, o)
       /\ IF o = "ok" THEN Continue("getPublishInfo") ELSE Throw(Thrown(o), Thrown(o))
  /\ UNCHANGED <<inputs, store, fetched, flow, publishedExpIds, reprompts>>

\* The bundleIdentifier check made only after the stored bundle was fetched.
GetPublishInfo_LateCheck ==
  /\ pc = "getPublishInfo"
  /\ \E o \in {"ok", "unclassified"} :
       IF o # "ok"
         THEN /\ Record("getPublishInfo", "none", NullCredentials, o)
              /\ Throw(Thrown(o), Thrown(o))
         ELSE IF ~bundleIdentifier
                THEN /\ log' = log \o <<Event("getPublishInfo", "none", NullCredentials, o),
                                       Event("credentialsExist", "none", NullCredentials, "ok")>>
                     /\ Fail(XDLError("INVALID_OPTIONS", MsgNoBundleIdentifier))
                     /\ UNCHANGED raised
                ELSE /\ Record("getPublishInfo", "none", NullCredentials, o)
                     /\ Continue("credentialsExist")
  /\ UNCHANGED <<inputs, store, fetched, flow, publishedExpIds, reprompts>>

\* -------------------------------------------- collectAndValidateCredentials()
\* Exp.getPublishInfoAsync(this.projectDir) and the bundleIdentifier check.
GetPublishInfo ==
  /\ pc = "getPublishInfo"
  /\ \E o \in {"ok", "unclassified"} :
       /\ Record("getPublishInfo", "none", NullCredentials, o)
       /\ IF o # "ok"
            THEN Throw(Thrown(o), Thrown(o))
            ELSE IF ~bundleIdentifier
                   THEN /\ Fail(XDLError("INVALID_OPTIONS", MsgNoBundleIdentifier))
                        /\ UNCHANGED raised
                   ELSE Continue("credentialsExist")
  /\ UNCHANGED <<inputs, store, fetched, flow, publishedExpIds, reprompts>>

\* hasAppleId, hasCert, hasPushCert computed without regard to the clear flag
HasCredential_IgnoreClear(clear, existing, k) ==
  IF existing.null THEN FALSE ELSE existing[k]

\* hasAppleId, hasCert, hasPushCert with the presence test negated
HasCredential_Negated(clear, existing, k) ==
  IF clear \/ existing.null THEN FALSE ELSE ~existing[k]

\* let hasAppleId, hasCert, hasPushCert: the field of existing that shows kind k
\* is stored, unless the bundle is missing or the clear flag is set.
HasCredential(clear, existing, k) ==
  IF clear \/ existing.null
    THEN FALSE
    ELSE existing[k]

\* What credentialsExistForPlatformAsync returns for the stored bundle; the
\* fields appleId, cert and push stand for appleId, certP12 and pushP12.
StoredBundle ==
  [fetched |-> TRUE, null |-> ~remoteExists,
   appleId |-> remote["appleId"] # "absent",
   cert |-> remote["cert"] # "absent",
   push |-> remote["push"] # "absent"]

\* const existingCredentials = await Credentials.credentialsExistForPlatformAsync(..)
\* and the computation of hasAppleId, hasCert, hasPushCert.
CredentialsExist ==
  /\ pc = "credentialsExist"
  /\ \E o \in Outcomes :
       /\ Record("credentialsExist", "none", NullCredentials, o)
       /\ IF o = "ok"
            THEN /\ existingCredentials' = StoredBundle
                 /\ has' = [k \in Kinds |-> HasCredential(clearCredentials, StoredBundle, k)]
                 /\ Continue("appleId")
            ELSE /\ Throw(Thrown(o), Thrown(o))
                 /\ UNCHANGED fetched
  /\ UNCHANGED <<inputs, store, flow, publishedExpIds, reprompts>>

\* A catch (e) that throws the caught error again
RevalidateCatch_Rethrow(k, e) == e

\* catch (e) of the three re-validations: whatever was thrown, the run rejects
\* with a CREDENTIAL_ERROR that tells the operator to rerun with "-c".
RevalidateCatch(k, e) ==
  XDLError("CREDENTIAL_ERROR",
           CASE k = "appleId" -> MsgStoredCredentials
             [] k = "cert" -> MsgStoredCertificate
             [] k = "push" -> MsgStoredPush)

\* A re-validation that is tried a second time when it fails
Revalidate_RetryOnce(k, next) ==
  /\ has[k]
  /\ \E o \in Outcomes :
       /\ Record("validate", k, NullCredentials, o)
       /\ IF o = "ok"
            THEN Continue(next)
            ELSE IF \E i \in 1..Len(log) : log[i].op = "validate" /\ log[i].kind = k
                   THEN Throw(Thrown(o), XDLError("CREDENTIAL_ERROR", MsgStoredCredentials))
                   ELSE UNCHANGED <<pc, raised, error>>
  /\ UNCHANGED <<inputs, store, fetched, flow, publishedExpIds, reprompts>>

\* A re-validation whose catch (e) does not throw
Revalidate_Swallow(k, next) ==
  /\ has[k]
  /\ \E o \in Outcomes :
       /\ Record("validate", k, NullCredentials, o)
       /\ Continue(next)
  /\ UNCHANGED <<inputs, store, fetched, flow, publishedExpIds, reprompts>>

\* The else branch of a kind: validateCredentialsForPlatform('ios', k, null, ..)
Revalidate(k, next) ==
  /\ has[k]
  /\ \E o \in Outcomes :
       /\ Record("validate", k, NullCredentials, o)
       /\ IF o = "ok"
            THEN Continue(next)
            ELSE Throw(Thrown(o), RevalidateCatch(k, Thrown(o)))
  /\ UNCHANGED <<inputs, store, fetched, flow, publishedExpIds, reprompts>>

\* if (!has..) await this.askFor..(credentialMetadata): the flow is entered
\* and prints its heading.
EnterFlow(k, op, first) ==
  /\ ~has[k]
  /\ Record(op, k, NullCredentials, "entered")
  /\ pc' = first
  /\ question' = 1
  /\ answers' = NoAnswers
  /\ UNCHANGED <<inputs, store, fetched, credentials, isValid, publishedExpIds,
                 raised, error, reprompts>>

RevalidateAppleId == pc = "appleId" /\ Revalidate("appleId", "cert")

AskForAppleId == pc = "appleId" /\ EnterFlow("appleId", "askForAppleId", "promptAppleId")

\* ------------------------------------------------------------ askForAppleId()
\* inquirer.prompt(questions): one of the three questions is answered; an
\* empty answer is rejected and the question asked again.
PromptAppleId ==
  /\ pc = "promptAppleId"
  /\ \E val \in {"", "entered"} :
       LET q == AppleIdQuestions[question]
       IN IF validateNonEmpty(val)
            THEN /\ Record("prompt", "appleId", [q |-> q, val |-> val], "accepted")
                 /\ answers' = [answers EXCEPT ![q] = val]
                 /\ IF question < Len(AppleIdQuestions)
                      THEN /\ question' = question + 1
                           /\ pc' = pc
                           /\ UNCHANGED credentials
                      ELSE /\ question' = question
                           /\ pc' = "validateAppleId"
                           /\ credentials' = [appleId |-> answers.appleId,
                                              password |-> answers.password,
                                              teamId |-> val]
                 /\ UNCHANGED reprompts
            ELSE /\ CanReprompt
                 /\ Record("prompt", "appleId", [q |-> q, val |-> val], "rejected")
                 /\ reprompts' = reprompts + 1
                 /\ UNCHANGED <<pc, question, answers, credentials>>
  /\ UNCHANGED <<inputs, store, fetched, isValid, publishedExpIds, raised, error>>

\* A catch (e) that reports the service's code with the generic message
AskForAppleIdCatch_Generic(e) ==
  IF e.isXDLError THEN CommandError(e.code, MsgFailedFetching) ELSE e

\* catch (e) of askForAppleId's validation
AskForAppleIdCatch(e) ==
  IF e.isXDLError THEN CommandError(e.code, e.message) ELSE e

\* An Apple ID validation whose catch (e) does not throw
ValidateAppleId_Swallow ==
  /\ pc = "validateAppleId"
  /\ \E o \in Outcomes :
       /\ Record("validate", "appleId", credentials, o)
       /\ Continue("updateAppleId")
  /\ UNCHANGED <<inputs, store, fetched, flow, publishedExpIds, reprompts>>

\* await Credentials.validateCredentialsForPlatform('ios', 'appleId', credentials, ..)
ValidateAppleId ==
  /\ pc = "validateAppleId"
  /\ \E o \in Outcomes :
       /\ Record("validate", "appleId", credentials, o)
       /\ IF o = "ok"
            THEN Continue("updateAppleId")
            ELSE Throw(Thrown(o), AskForAppleIdCatch(Thrown(o)))
  /\ UNCHANGED <<inputs, store, fetched, flow, publishedExpIds, reprompts>>

\* The service stores the bundle of a successful update call.
Stored(k) == /\ remote' = [remote EXCEPT ![k] = "updated"]
             /\ remoteExists' = TRUE

\* await Credentials.updateCredentialsForPlatform('ios', credentials, ..)
UpdateAppleId ==
  /\ pc = "updateAppleId"
  /\ \E o \in Outcomes :
       /\ Record("update", "appleId", credentials, o)
       /\ IF o = "ok"
            THEN Continue("cert") /\ Stored("appleId")
            ELSE Throw(Thrown(o), Thrown(o)) /\ UNCHANGED store
  /\ UNCHANGED <<inputs, fetched, flow, publishedExpIds, reprompts>>

RevalidateCert == pc = "cert" /\ Revalidate("cert", "ensureAppId")

AskForCerts == pc = "cert" /\ EnterFlow("cert", "askForCerts", "promptManageCertificates")

\* -------------------------------------------------------------- askForCerts()
\* A rawlist question whose path and password questions are asked whatever
\* the answer (their when: dropped), the file then being read and uploaded.
PromptManage_NoWhen(k, fetch, path) ==
  \E manage \in BOOLEAN :
    /\ Record("prompt", k, [q |-> "manage", val |-> IF manage THEN "true" ELSE "false"],
              "accepted")
    /\ answers' = [answers EXCEPT !.manage = IF manage THEN "true" ELSE "false"]
    /\ pc' = path
    /\ UNCHANGED <<inputs, store, fetched, question, credentials, isValid,
                   publishedExpIds, raised, error, reprompts>>

\* The rawlist question of a certificate flow: TRUE lets the service manage
\* the certificate; the path and password questions are asked when: it is FALSE.
PromptManage(k, fetch, path) ==
  \E manage \in BOOLEAN :
    /\ Record("prompt", k, [q |-> "manage", val |-> IF manage THEN "true" ELSE "false"],
              "accepted")
    /\ answers' = [answers EXCEPT !.manage = IF manage THEN "true" ELSE "false"]
    /\ pc' = IF manage THEN fetch ELSE path
    /\ UNCHANGED <<inputs, store, fetched, question, credentials, isValid,
                   publishedExpIds, raised, error, reprompts>>

\* The pathToP12 question: the typed path goes through filter:, then validate:,
\* and is asked again until validate: returns true.
PromptPath(k, next) ==
  /\ \E typed \in TypedPaths :
       LET p12Path == filterP12Path(typed)
       IN IF validateP12Path(p12Path)
            THEN /\ Record("prompt", k, [q |-> "pathToP12", path |-> p12Path], "accepted")
                 /\ answers' = [answers EXCEPT !.pathToP12 = p12Path]
                 /\ pc' = next
                 /\ UNCHANGED reprompts
            ELSE /\ CanReprompt
                 /\ Record("prompt", k, [q |-> "pathToP12", path |-> p12Path], "rejected")
                 /\ reprompts' = reprompts + 1
                 /\ UNCHANGED <<pc, answers>>
  /\ UNCHANGED <<inputs, store, fetched, question, credentials, isValid,
                 publishedExpIds, raised, error>>

\* The password question of a certificate flow (empty is OK).
PromptPassword(k, next) ==
  \E val \in {"", "secret"} :
    /\ Record("prompt", k, [q |-> "password", val |-> val], "accepted")
    /\ answers' = [answers EXCEPT !.password = val]
    /\ pc' = next
    /\ UNCHANGED <<inputs, store, fetched, question, credentials, isValid,
                   publishedExpIds, raised, error, reprompts>>

PromptManageCertificates ==
  pc = "promptManageCertificates"
    /\ PromptManage("cert", "fetchAppleCertificates", "promptCertPath")

PromptCertPath == pc = "promptCertPath" /\ PromptPath("cert", "promptCertPassword")

PromptCertPassword == pc = "promptCertPassword" /\ PromptPassword("cert", "readCertFile")

\* An inner catch (e) that throws an XDLError, as askForPushCerts' does
AskForCertsInnerCatch_XDLError(e) ==
  IF e.isXDLError THEN XDLError(e.code, MsgCertNotInPortal) ELSE e

\* The inner catch (e) of askForCerts, around the validation.
AskForCertsInnerCatch(e) ==
  IF e.isXDLError THEN CommandError(e.code, MsgCertNotInPortal) ELSE e

\* An outer catch (e) that throws every error again as it is
AskForCertsOuterCatch_Rethrow(e) == e

\* An outer catch (e) that wraps every error
AskForCertsOuterCatch_WrapAll(e) == CommandError(e.code, MsgFailedFetching)

\* The outer catch (e) of askForCerts.
AskForCertsOuterCatch(e) ==
  IF e.isXDLError THEN CommandError(e.code, MsgFailedFetching) ELSE e

\* await Credentials.fetchAppleCertificates(credentialMetadata)
FetchAppleCertificates ==
  /\ pc = "fetchAppleCertificates"
  /\ \E o \in Outcomes :
       /\ Record("fetchAppleCertificates", "cert", NullCredentials, o)
       /\ IF o = "ok"
            THEN Continue("ensureAppId")
            ELSE Throw(Thrown(o), AskForCertsOuterCatch(Thrown(o)))
  /\ UNCHANGED <<inputs, store, fetched, flow, publishedExpIds, reprompts>>

\* const p12Data = await fs.readFile.promise(answers.pathToP12) and the
\* construction of the candidate.
ReadCertFile ==
  /\ pc = "readCertFile"
  /\ \E o \in {"ok", "unclassified"} :
       /\ Record("readFile", "cert", [path |-> answers.pathToP12], o)
       /\ IF o = "ok"
            THEN /\ credentials' = [certP12 |-> Base64(FileData(answers.pathToP12)),
                                    certPassword |-> answers.password]
                 /\ Continue("validateCert")
            ELSE /\ Throw(FileFault, AskForCertsOuterCatch(FileFault))
                 /\ UNCHANGED credentials
  /\ UNCHANGED <<inputs, store, fetched, question, answers, isValid,
                 publishedExpIds, reprompts>>

\* await Credentials.validateCredentialsForPlatform('ios', 'cert', credentials, ..)
ValidateCert ==
  /\ pc = "validateCert"
  /\ \E o \in Outcomes :
       /\ Record("validate", "cert", credentials, o)
       /\ IF o = "ok"
            THEN Continue("updateCert")
            ELSE Throw(Thrown(o), AskForCertsOuterCatch(AskForCertsInnerCatch(Thrown(o))))
  /\ UNCHANGED <<inputs, store, fetched, flow, publishedExpIds, reprompts>>

\* An update whose failure handler restores the stored bundle of the run's start
UpdateCert_Rollback ==
  /\ pc = "updateCert"
  /\ \E o \in Outcomes :
       /\ Record("update", "cert", credentials, o)
       /\ IF o = "ok"
            THEN Continue("ensureAppId") /\ Stored("cert")
            ELSE /\ Throw(Thrown(o), AskForCertsOuterCatch(Thrown(o)))
                 /\ remote' = [k \in Kinds |->
                                 IF existingCredentials[k] THEN "stored" ELSE "absent"]
                 /\ UNCHANGED remoteExists
  /\ UNCHANGED <<inputs, fetched, flow, publishedExpIds, reprompts>>

\* await Credentials.updateCredentialsForPlatform('ios', credentials, ..)
UpdateCert ==
  /\ pc = "updateCert"
  /\ \E o \in Outcomes :
       /\ Record("update", "cert", credentials, o)
       /\ IF o = "ok"
            THEN Continue("ensureAppId") /\ Stored("cert")
            ELSE Throw(Thrown(o), AskForCertsOuterCatch(Thrown(o))) /\ UNCHANGED store
  /\ UNCHANGED <<inputs, fetched, flow, publishedExpIds, reprompts>>

\* ------------------------------------------------------- app-id registration
\* catch (e) of the ensureAppId call
EnsureAppIdCatch(e) == XDLError("CREDENTIAL_ERROR", MsgAppId)

\* An app-id registration whose catch (e) does not throw
EnsureAppId_Swallow ==
  /\ pc = "ensureAppId"
  /\ \E o \in Outcomes :
       /\ Record("ensureAppId", "none", NullCredentials, o)
       /\ Continue("push")
  /\ UNCHANGED <<inputs, store, fetched, flow, publishedExpIds, reprompts>>

\* await Credentials.ensureAppId(credentialMetadata)
EnsureAppId ==
  /\ pc = "ensureAppId"
  /\ \E o \in Outcomes :
       /\ Record("ensureAppId", "none", NullCredentials, o)
       /\ IF o = "ok"
            THEN Continue("push")
            ELSE Throw(Thrown(o), EnsureAppIdCatch(Thrown(o)))
  /\ UNCHANGED <<inputs, store, fetched, flow, publishedExpIds, reprompts>>

RevalidatePush == pc = "push" /\ Revalidate("push", "publish")

AskForPushCerts ==
  pc = "push" /\ EnterFlow("push", "askForPushCerts", "promptManagePushCertificates")

\* ---------------------------------------------------------- askForPushCerts()
PromptManagePushCertificates ==
  pc = "promptManagePushCertificates"
    /\ PromptManage("push", "fetchPushCertificates", "promptPushPath")

PromptPushPath == pc = "promptPushPath" /\ PromptPath("push", "promptPushPassword")

PromptPushPassword == pc = "promptPushPassword" /\ PromptPassword("push", "readPushFile")

\* The inner catch (e) of askForPushCerts, around the validation.
AskForPushCertsInnerCatch(e) == XDLError("CREDENTIAL_ERROR", MsgPushNotInPortal)

\* askForPushCerts without its final check of isValid
PushCertsEnd_NoCheck(v) == pc' = "publish" /\ error' = error

\* if (!isValid) throw .. at the end of askForPushCerts, with isValid = v.
PushCertsEnd(v) ==
  IF v = "true"
    THEN pc' = "publish" /\ error' = error
    ELSE Fail(XDLError("CREDENTIAL_ERROR", MsgFailedFetching))

\* The outer catch (e) of askForPushCerts: an XDLError is thrown again; any
\* other error sets isValid = false, and the final check then throws.
AskForPushCertsOuterCatch(e) ==
  IF ~e.isXDLError
    THEN isValid' = "false" /\ PushCertsEnd("false")
    ELSE Fail(e) /\ UNCHANGED isValid

\* isValid = await Credentials.fetchPushCertificates(credentialMetadata)
FetchPushCertificates ==
  /\ pc = "fetchPushCertificates"
  /\ \E o \in {"true", "false", "classified", "unclassified"} :
       /\ Record("fetchPushCertificates", "push", NullCredentials, o)
       /\ IF o \in {"true", "false"}
            THEN isValid' = o /\ PushCertsEnd(o) /\ UNCHANGED raised
            ELSE AskForPushCertsOuterCatch(Thrown(o)) /\ raised' = Thrown(o)
  /\ UNCHANGED <<inputs, store, fetched, question, answers, credentials,
                 publishedExpIds, reprompts>>

\* const p12Data = await fs.readFile.promise(answers.pathToP12) and the
\* construction of the candidate.
ReadPushFile ==
  /\ pc = "readPushFile"
  /\ \E o \in {"ok", "unclassified"} :
       /\ Record("readFile", "push", [path |-> answers.pathToP12], o)
       /\ IF o = "ok"
            THEN /\ credentials' = [pushP12 |-> Base64(FileData(answers.pathToP12)),
                                    pushPassword |-> answers.password]
                 /\ Continue("validatePush")
                 /\ UNCHANGED isValid
            ELSE /\ AskForPushCertsOuterCatch(FileFault)
                 /\ raised' = FileFault
                 /\ UNCHANGED credentials
  /\ UNCHANGED <<inputs, store, fetched, question, answers, publishedExpIds, reprompts>>

\* isValid = await Credentials.validateCredentialsForPlatform('ios', 'push', credentials, ..)
ValidatePush ==
  /\ pc = "validatePush"
  /\ \E o \in {"true", "false", "classified", "unclassified"} :
       /\ Record("validate", "push", credentials, o)
       /\ IF o \in {"true", "false"}
            THEN isValid' = o /\ Continue("updatePush")
            ELSE AskForPushCertsOuterCatch(AskForPushCertsInnerCatch(Thrown(o)))
                   /\ raised' = Thrown(o)
  /\ UNCHANGED <<inputs, store, fetched, question, answers, credentials,
                 publishedExpIds, reprompts>>

\* await Credentials.updateCredentialsForPlatform('ios', credentials, ..) and
\* the final check of isValid.
UpdatePush ==
  /\ pc = "updatePush"
  /\ \E o \in Outcomes :
       /\ Record("update", "push", credentials, o)
       /\ IF o = "ok"
            THEN PushCertsEnd(isValid) /\ Stored("push") /\ UNCHANGED <<raised, isValid>>
            ELSE /\ AskForPushCertsOuterCatch(Thrown(o))
                 /\ raised' = Thrown(o)
                 /\ UNCHANGED store
  /\ UNCHANGED <<inputs, fetched, question, answers, credentials,
                 publishedExpIds, reprompts>>

\* ------------------------------------------------------- publish and build
ExperienceIds == {<<"exp-a">>, <<"exp-a", "exp-b">>}

\* const publishedExpIds = await this.publish()
Publish ==
  /\ pc = "publish"
  /\ \/ \E ids \in ExperienceIds :
          /\ Record("publish", "none", [ids |-> ids], "ok")
          /\ publishedExpIds' = ids
          /\ Continue("build")
     \/ \E o \in {"classified", "unclassified"} :
          /\ Record("publish", "none", NullCredentials, o)
          /\ Throw(Thrown(o), Thrown(o))
          /\ UNCHANGED publishedExpIds
  /\ UNCHANGED <<inputs, store, fetched, flow, reprompts>>

\* A build submitted with the first published id only
Build_FirstId ==
  /\ pc = "build"
  /\ \E o \in Outcomes :
       /\ Record("build", "none", [ids |-> <<Head(publishedExpIds)>>], o)
       /\ IF o = "ok" THEN Continue("done") ELSE Throw(Thrown(o), Thrown(o))
  /\ UNCHANGED <<inputs, store, fetched, flow, publishedExpIds, reprompts>>

\* await this.build(publishedExpIds, 'ios')
Build ==
  /\ pc = "build"
  /\ \E o \in Outcomes :
       /\ Record("build", "none", [ids |-> publishedExpIds], o)
       /\ IF o = "ok" THEN Continue("done") ELSE Throw(Thrown(o), Thrown(o))
  /\ UNCHANGED <<inputs, store, fetched, flow, publishedExpIds, reprompts>>

Next ==
  \/ CheckPackagerStatus
  \/ CheckStatus
  \/ GetPublishInfo
  \/ CredentialsExist
  \/ RevalidateAppleId
  \/ AskForAppleId
  \/ PromptAppleId
  \/ ValidateAppleId
  \/ UpdateAppleId
  \/ RevalidateCert
  \/ AskForCerts
  \/ PromptManageCertificates
  \/ PromptCertPath
  \/ PromptCertPassword
  \/ FetchAppleCertificates
  \/ ReadCertFile
  \/ ValidateCert
  \/ UpdateCert
  \/ EnsureAppId
  \/ RevalidatePush
  \/ AskForPushCerts
  \/ PromptManagePushCertificates
  \/ PromptPushPath
  \/ PromptPushPassword
  \/ FetchPushCertificates
  \/ ReadPushFile
  \/ ValidatePush
  \/ UpdatePush
  \/ Publish
  \/ Build

Spec == Init /\ [][Next]_vars

\* Every await of the run settles and every question is answered: a step that
\* can be taken is taken.
FairSpec == Spec /\ WF_vars(Next)

\* ================================================================ properties
Idx == 1..Len(log)

\* The step of run() an event belongs to: 0 the checks and the fetch, 1 Apple
\* ID, 2 certificate, 3 app-id registration, 4 push certificate, 5 publish,
\* 6 build.
Step(e) ==
  CASE e.kind = "appleId" -> 1
    [] e.kind = "cert" -> 2
    [] e.op = "ensureAppId" -> 3
    [] e.kind = "push" -> 4
    [] e.op = "publish" -> 5
    [] e.op = "build" -> 6
    [] OTHER -> 0

KindStep(k) == CASE k = "appleId" -> 1 [] k = "cert" -> 2 [] k = "push" -> 4

FlowOp(k) ==
  CASE k = "appleId" -> "askForAppleId" [] k = "cert" -> "askForCerts"
    [] k = "push" -> "askForPushCerts"

Threw(e) == e.res \in {"classified", "unclassified"}
Failed(e) == Threw(e) \/ e.res = "false"
Succeeded(e) == e.res \in {"ok", "true"}

IsRevalidate(e, k) == e.op = "validate" /\ e.kind = k /\ e.cand = NullCredentials
IsCandidateCall(e, op, k) == e.op = op /\ e.kind = k /\ e.cand # NullCredentials

Revalidated(k) == \E i \in Idx : IsRevalidate(log[i], k)
Collected(k) == \E i \in Idx : log[i].op = FlowOp(k)
Reached(k) == \E i \in Idx : Step(log[i]) >= KindStep(k)

BundleAbsent == existingCredentials.fetched /\ existingCredentials.null

\* Kind k's step ended without error before position j of the log.
KindValidBefore(k, j) ==
  \E i \in Idx :
    /\ i < j
    /\ log[i].res = "ok"
    /\ \/ IsRevalidate(log[i], k)
       \/ IsCandidateCall(log[i], "update", k)
            /\ \E h \in Idx : h < i /\ IsCandidateCall(log[h], "validate", k)
                                    /\ Succeeded(log[h])
                                    /\ log[h].cand = log[i].cand
       \/ k = "cert" /\ log[i].op = "fetchAppleCertificates"

PushValidBefore(j) ==
  \/ KindValidBefore("push", j)
  \/ \E i \in Idx : i < j /\ log[i].op = "fetchPushCertificates" /\ log[i].res = "true"

\* C1: for each kind, when the fetched bundle is absent or the clear flag is
\* set, the stored material is never re-validated and the kind's step, once
\* reached, runs the collection flow; and no run both collects and
\* re-validates the same kind.
C1_CollectionNotRevalidation ==
  \A k \in Kinds :
    /\ (clearCredentials \/ BundleAbsent) => ~Revalidated(k)
    /\ ((clearCredentials \/ BundleAbsent) /\ Reached(k)) => Collected(k)
    /\ ~(Revalidated(k) /\ Collected(k))

C1_Witness ==
  /\ clearCredentials
  /\ existingCredentials.fetched /\ ~existingCredentials.null
  /\ \A k \in Kinds : existingCredentials[k] /\ Collected(k)

\* C2: a failure is fatal to the run: a call that threw is the last event of
\* the run, which then stands failed, and after a failed event nothing of a
\* later step happens; after a failed Apple ID re-validation there is no
\* certificate, app-id or push-certificate call or prompt.
C2_FailureIsFatal ==
  /\ \A i \in Idx : Threw(log[i]) => (i = Len(log) /\ pc = "failed")
  /\ \A i, j \in Idx : (i < j /\ Failed(log[i])) => Step(log[j]) <= Step(log[i])
  /\ \A i \in Idx : (IsRevalidate(log[i], "appleId") /\ Failed(log[i]))
                       => \A j \in Idx : Step(log[j]) <= 1
  /\ (pc = "failed") = (error # NoError)

C2_Witness ==
  /\ pc = "failed"
  /\ Len(log) > 0
  /\ IsRevalidate(log[Len(log)], "appleId")
  /\ Threw(log[Len(log)])
  /\ existingCredentials.cert /\ existingCredentials.push

\* C3: app-id registration is called at most once, and once in every run that
\* gets past the certificate step; it directly follows the event that
\* established the certificate (re-validation, generation or update), and
\* every push-certificate prompt or call comes after its success.
C3_AppIdOnceBetweenCertAndPush ==
  /\ Cardinality({i \in Idx : log[i].op = "ensureAppId"}) <= 1
  /\ \A i \in Idx : log[i].op = "ensureAppId" =>
       /\ KindValidBefore("cert", i)
       /\ i > 1 /\ log[i - 1].kind = "cert" /\ log[i - 1].res = "ok"
       /\ \A h \in Idx : h < i => Step(log[h]) < 4
  /\ \A j \in Idx : Step(log[j]) >= 4 =>
       \E i \in Idx : i < j /\ log[i].op = "ensureAppId" /\ log[i].res = "ok"
  /\ pc = "ensureAppId" => KindValidBefore("cert", Len(log) + 1)

C3_Witness ==
  \E i, j \in Idx :
    /\ i < j
    /\ log[i].op = "ensureAppId"
    /\ log[i - 1].op = "fetchAppleCertificates"
    /\ log[j].op = "update" /\ log[j].kind = "push"

\* C4: publish starts only after all three kinds' steps and the app-id
\* registration ended without error, and a build is submitted only directly
\* after a successful publish, with the experience ids that publish returned.
C4_PublishThenBuild ==
  /\ \A i \in Idx : log[i].op = "publish" =>
       /\ KindValidBefore("appleId", i)
       /\ KindValidBefore("cert", i)
       /\ PushValidBefore(i)
       /\ \E h \in Idx : h < i /\ log[h].op = "ensureAppId" /\ log[h].res = "ok"
       /\ \A h \in Idx : h < i => ~Failed(log[h])
  /\ \A j \in Idx : log[j].op = "build" =>
       /\ j > 1
       /\ log[j - 1].op = "publish" /\ log[j - 1].res = "ok"
       /\ log[j].cand = log[j - 1].cand
       /\ log[j].cand.ids = publishedExpIds
  /\ pc \in {"build", "done"} => PushValidBefore(Len(log) + 1)

C4_Witness ==
  /\ pc = "done"
  /\ log[Len(log)].op = "build"
  /\ log[Len(log)].cand.ids = <<"exp-a", "exp-b">>

\* C5: every certificate prompt and certificate service call comes after the
\* Apple ID step ended valid: after a successful Apple ID re-validation, or a
\* successful update of entered Apple ID credentials that were validated.
C5_AppleIdBeforeCert ==
  \A j \in Idx : log[j].kind = "cert" => KindValidBefore("appleId", j)

C5_Witness ==
  \E i, j \in Idx :
    /\ i < j
    /\ IsCandidateCall(log[i], "update", "appleId") /\ log[i].res = "ok"
    /\ IsCandidateCall(log[j], "update", "cert")

PreludeOps == {"checkPackagerStatus", "checkStatus", "getPublishInfo"}

\* The calls that reach the Platform Service, and the prompts.
ServiceOps ==
  {"checkStatus", "credentialsExist", "validate", "update", "fetchAppleCertificates",
   "fetchPushCertificates", "ensureAppId", "publish", "build"}

ConfigurationError == XDLError("INVALID_OPTIONS", MsgNoBundleIdentifier)

\* C6 as stated: when the run fails for the missing bundle identifier, no
\* prompt and no Platform Service call of the run has preceded the error.
C6_NothingBeforeConfigurationError ==
  error = ConfigurationError =>
    \A i \in Idx : log[i].op \notin ServiceOps \cup {"prompt"}

\* C6: without a bundle identifier the run fails with INVALID_OPTIONS as soon
\* as the project info is read: no prompt and no credential fetch,
\* validation, update, generation, app-id, publish or build call precedes the
\* error; only the packager check, the active-build check and the read of the
\* project info do.
C6_ConfigurationErrorFirst ==
  /\ error = ConfigurationError =>
       /\ ~bundleIdentifier
       /\ pc = "failed"
       /\ \A i \in Idx : log[i].op \in PreludeOps
  /\ (~bundleIdentifier /\ \E i \in Idx : log[i].op = "getPublishInfo" /\ log[i].res = "ok")
       => error = ConfigurationError
  /\ ~bundleIdentifier => \A i \in Idx : log[i].op \in PreludeOps

C6_Witness ==
  /\ error = ConfigurationError
  /\ existingCredentials.fetched = FALSE
  /\ Len(log) = 3

\* C7 as stated: every update call is preceded in the run by a validate call
\* of the same kind and the same candidate that reported the candidate valid.
C7_UpdateOnlyAfterValid ==
  \A j \in Idx : log[j].op = "update" =>
    \E i \in Idx :
      /\ i < j
      /\ IsCandidateCall(log[i], "validate", log[j].kind)
      /\ log[i].cand = log[j].cand
      /\ Succeeded(log[i])

Unclassified(e) == e # NoError /\ ~e.isXDLError

\* C8 as stated: an unclassified error thrown by a collaborator call is the
\* error the run rejects with.
C8_UnclassifiedUnchanged ==
  (pc = "failed" /\ Unclassified(raised)) => error = raised

\* Whether the last call of the log, the one that threw, is made under a
\* handler that rewrites every error.
LastEvent == log[Len(log)]
LastIsRevalidate == \E k \in Kinds : IsRevalidate(LastEvent, k)
LastInPushFlow == LastEvent.kind = "push" /\ ~IsRevalidate(LastEvent, "push")

\* C8: an unclassified error is propagated unchanged from the Apple ID and
\* certificate collection flows and from the calls run() makes under no
\* handler; a failed re-validation, a failed app-id registration and a failure
\* in the push-certificate collection flow reject with a CREDENTIAL_ERROR
\* instead.
C8_UnclassifiedByHandler ==
  (pc = "failed" /\ Unclassified(raised)) =>
    /\ Threw(LastEvent)
    /\ IF LastIsRevalidate
         THEN error = RevalidateCatch(LastEvent.kind, raised)
         ELSE IF LastEvent.op = "ensureAppId"
           THEN error = XDLError("CREDENTIAL_ERROR", MsgAppId)
           ELSE IF LastInPushFlow
             THEN error = XDLError("CREDENTIAL_ERROR",
                                   IF LastEvent.op = "validate"
                                     THEN MsgPushNotInPortal ELSE MsgFailedFetching)
             ELSE error = raised
    /\ (LastIsRevalidate \/ LastEvent.op = "ensureAppId" \/ LastInPushFlow)
         => (error.type = "XDLError" /\ error.code = "CREDENTIAL_ERROR")

C8_Witness ==
  /\ pc = "failed"
  /\ LastEvent.op = "readFile" /\ LastEvent.kind = "cert"
  /\ raised = FileFault
  /\ error = FileFault

\* C9: when fetchPushCertificates returns a false validity, the run fails
\* with the generic CREDENTIAL_ERROR; and no run in which askForPushCerts'
\* isValid is false reaches publish or build.
C9_FalsePushValidityIsFatal ==
  /\ \A i \in Idx : (log[i].op = "fetchPushCertificates" /\ log[i].res = "false") =>
       /\ i = Len(log)
       /\ pc = "failed"
       /\ error = XDLError("CREDENTIAL_ERROR", MsgFailedFetching)
  /\ isValid = "false" =>
       /\ pc \in {"updatePush", "failed"}
       /\ \A i \in Idx : log[i].op \notin {"publish", "build"}
  /\ (\E i \in Idx : IsCandidateCall(log[i], "validate", "push") /\ log[i].res = "false")
       => isValid = "false"

C9_Witness ==
  /\ pc = "failed"
  /\ LastEvent.op = "fetchPushCertificates"
  /\ LastEvent.res = "false"
  /\ raised = NoError

IsPathPrompt(e, k) == e.op = "prompt" /\ e.kind = k /\ e.cand.q = "pathToP12"

\* C10: in a certificate or push-certificate flow with an operator-supplied
\* file, every file read and every validate or update call with a candidate
\* comes after a path question that accepted an existing file, and reads that
\* file; a path is accepted iff it names an existing file, and a rejected path
\* leaves the run at the same question, without an error.
C10_PathCheckedBeforeUse ==
  /\ \A k \in {"cert", "push"} : \A j \in Idx :
       ((log[j].op = "readFile" /\ log[j].kind = k)
          \/ IsCandidateCall(log[j], "validate", k)
          \/ IsCandidateCall(log[j], "update", k)) =>
         \E i \in Idx :
           /\ i < j
           /\ IsPathPrompt(log[i], k)
           /\ log[i].res = "accepted"
           /\ log[i].cand.path \in Files
           /\ log[j].op = "readFile" => log[j].cand.path = log[i].cand.path
  /\ \A i \in Idx : \A k \in {"cert", "push"} : IsPathPrompt(log[i], k) =>
       /\ (log[i].res = "accepted") = (log[i].cand.path \in Files)
       /\ (log[i].res = "rejected" /\ i = Len(log)) =>
            /\ pc = (IF k = "cert" THEN "promptCertPath" ELSE "promptPushPath")
            /\ error = NoError
       /\ (log[i].res = "rejected" /\ i < Len(log)) => IsPathPrompt(log[i + 1], k)

C10_Witness ==
  \E i, j \in Idx :
    /\ i + 1 < j
    /\ IsPathPrompt(log[i], "cert") /\ log[i].res = "rejected" /\ log[i].cand.path \in Dirs
    /\ IsPathPrompt(log[i + 1], "cert") /\ log[i + 1].res = "accepted"
    /\ IsCandidateCall(log[j], "update", "cert")

FullyStored ==
  /\ existingCredentials.fetched /\ ~existingCredentials.null
  /\ \A k \in Kinds : existingCredentials[k]

Ops == [i \in Idx |-> log[i].op]

\* The calls of a run that reuses all three stored kinds, in order.
DirectOps ==
  <<"checkPackagerStatus", "checkStatus", "getPublishInfo", "credentialsExist",
    "validate", "validate", "ensureAppId", "validate", "publish", "build">>

\* C11: when all three kinds are stored and the clear flag is unset, the run
\* shows no prompt, enters no collection flow and makes no update or
\* generation call; when the re-validations and the app-id registration
\* succeed it goes straight on to publish and then build.
C11_AllStoredNoPrompts ==
  (FullyStored /\ ~clearCredentials) =>
    /\ \A i \in Idx :
         /\ log[i].op \notin {"prompt", "update", "readFile", "fetchAppleCertificates",
                              "fetchPushCertificates"}
         /\ \A k \in Kinds : log[i].op # FlowOp(k)
         /\ log[i].op = "validate" => log[i].cand = NullCredentials
    /\ Ops = SubSeq(DirectOps, 1, Len(log))
    /\ reprompts = 0
    /\ (pc = "failed") = (Len(log) > 0 /\ Threw(log[Len(log)]))
    /\ pc = "done" => Len(log) = Len(DirectOps)

C11_Witness ==
  /\ FullyStored /\ ~clearCredentials
  /\ pc = "done"
  /\ Ops = DirectOps

\* C12: when the clear flag is set and all three kinds are stored, no stored
\* kind is re-validated, every kind whose step the run reaches enters its
\* collection flow, and a run that gets to publish has entered all three.
C12_ClearCollectsAll ==
  (FullyStored /\ clearCredentials) =>
    /\ \A i \in Idx : log[i].op = "validate" => log[i].cand # NullCredentials
    /\ \A k \in Kinds : Reached(k) =>
         \E i \in Idx : /\ log[i].op = FlowOp(k)
                        /\ \A h \in Idx : (h < i) => log[h].kind # k
    /\ pc \in {"publish", "build", "done"} => \A k \in Kinds : Collected(k)
    /\ has = [k \in Kinds |-> FALSE]

C12_Witness ==
  /\ FullyStored /\ clearCredentials
  /\ pc = "done"
  /\ \A k \in Kinds : Collected(k)
  /\ \A k \in Kinds : remote[k] = "updated"

\* The last event of a failed run is a call of askForCerts that threw.
CertFlowThrew ==
  /\ pc = "failed"
  /\ Len(log) > 0
  /\ LastEvent.kind = "cert"
  /\ ~IsRevalidate(LastEvent, "cert")
  /\ Threw(LastEvent)

\* C13 as stated: every failure of fetchAppleCertificates, and every
\* unclassified error of the operator-supplied branch, ends the run with the
\* generic "Failed fetching/uploading certificates." error.
C13_CertFailuresGeneric ==
  (CertFlowThrew /\ (LastEvent.op = "fetchAppleCertificates" \/ Unclassified(raised)))
    => error.message = MsgFailedFetching

\* C13: a classified failure of fetchAppleCertificates (and of the update
\* call) ends the run with a CommandError that carries the service's code and
\* the generic message; an unclassified error of either branch of
\* askForCerts is the error the run rejects with, unchanged.
C13_CertFailuresByClass ==
  CertFlowThrew =>
    IF raised.isXDLError
      THEN /\ error.type = "CommandError"
           /\ error.code = raised.code
           /\ error.message = (IF LastEvent.op = "validate"
                                 THEN MsgCertNotInPortal ELSE MsgFailedFetching)
      ELSE error = raised

C13_Witness ==
  /\ CertFlowThrew
  /\ LastEvent.op = "fetchAppleCertificates"
  /\ raised = ServiceError
  /\ error = CommandError("SERVICE_CODE", MsgFailedFetching)

\* C14: in askForAppleId a classified failure of the validation rejects with a
\* CommandError of the service's code and message and any other failure with
\* the error itself, and in both cases no update call is made; the update
\* call is made once, directly after a validation of the same candidate that
\* succeeded.
C14_AppleIdValidationOutcome ==
  /\ \A i \in Idx : IsCandidateCall(log[i], "validate", "appleId") =>
       /\ Threw(log[i]) =>
            /\ i = Len(log) /\ pc = "failed"
            /\ \A j \in Idx : ~IsCandidateCall(log[j], "update", "appleId")
            /\ remote["appleId"] # "updated"
            /\ IF log[i].res = "classified"
                 THEN /\ error.type = "CommandError"
                      /\ error.code = raised.code
                      /\ error.message = raised.message
                      /\ raised = ServiceError
                 ELSE error = raised /\ Unclassified(raised)
       /\ (log[i].res = "ok" /\ i < Len(log)) =>
            /\ IsCandidateCall(log[i + 1], "update", "appleId")
            /\ log[i + 1].cand = log[i].cand
       /\ (log[i].res = "ok" /\ i = Len(log)) => pc = "updateAppleId"
  /\ Cardinality({j \in Idx : IsCandidateCall(log[j], "update", "appleId")}) <= 1
  /\ \A j \in Idx : IsCandidateCall(log[j], "update", "appleId") =>
       j > 1 /\ IsCandidateCall(log[j - 1], "validate", "appleId") /\ log[j - 1].res = "ok"

C14_Witness ==
  /\ pc = "failed"
  /\ IsCandidateCall(LastEvent, "validate", "appleId")
  /\ LastEvent.res = "classified"
  /\ error = CommandError("SERVICE_CODE", "service message")

RerunMessages == {MsgStoredCredentials, MsgStoredCertificate, MsgStoredPush}

\* C15: a kind is re-validated only when it is stored and the clear flag is
\* unset; a failed re-validation is the last call of the run, which rejects
\* with the CREDENTIAL_ERROR that tells the operator to rerun with "-c"; the
\* kind is validated once and its collection flow is not entered.
C15_FailedRevalidationStops ==
  \A k \in Kinds : \A i \in Idx : IsRevalidate(log[i], k) =>
    /\ ~clearCredentials /\ existingCredentials[k] /\ ~existingCredentials.null
    /\ Cardinality({j \in Idx : log[j].kind = k}) = 1
    /\ ~Collected(k)
    /\ Threw(log[i]) =>
         /\ i = Len(log) /\ pc = "failed"
         /\ error = XDLError("CREDENTIAL_ERROR",
                             CASE k = "appleId" -> MsgStoredCredentials
                               [] k = "cert" -> MsgStoredCertificate
                               [] k = "push" -> MsgStoredPush)
         /\ error.message \in RerunMessages

C15_Witness ==
  /\ pc = "failed"
  /\ IsRevalidate(LastEvent, "push")
  /\ LastEvent.res = "unclassified"
  /\ error = XDLError("CREDENTIAL_ERROR", MsgStoredPush)

\* C16: in the operator-supplied branch a classified failure of the
\* certificate validation rejects with the "not present in your developer
\* portal" message of the certificate, not the generic one, and no update
\* call is made; likewise for the push certificate with its own message.
C16_SpecificValidationMessage ==
  \A k \in {"cert", "push"} : \A i \in Idx :
    (IsCandidateCall(log[i], "validate", k) /\ log[i].res = "classified") =>
      /\ i = Len(log) /\ pc = "failed"
      /\ error.message = (IF k = "cert" THEN MsgCertNotInPortal ELSE MsgPushNotInPortal)
      /\ error.message # MsgFailedFetching
      /\ error.type = (IF k = "cert" THEN "CommandError" ELSE "XDLError")
      /\ error.code = (IF k = "cert" THEN raised.code ELSE "CREDENTIAL_ERROR")
      /\ \A j \in Idx : ~IsCandidateCall(log[j], "update", k)
      /\ remote[k] # "updated"

C16_Witness ==
  /\ pc = "failed"
  /\ IsCandidateCall(LastEvent, "validate", "cert")
  /\ LastEvent.res = "classified"
  /\ error = CommandError("SERVICE_CODE", MsgCertNotInPortal)

\* The remote steps of a run: an operation, and the kind it is for.
RemoteSteps ==
  ({"validate", "update"} \X Kinds)
    \cup {<<"fetchAppleCertificates", "cert">>, <<"fetchPushCertificates", "push">>}
    \cup ({"checkStatus", "credentialsExist", "ensureAppId", "publish", "build"} \X {"none"})

Calls(op, kind) == {i \in Idx : log[i].op = op /\ log[i].kind = kind}

PastFetch == pc \notin {"checkPackagerStatus", "checkStatus", "getPublishInfo",
                        "credentialsExist"}

\* C17: every remote step is called at most once in a run; the stored bundle
\* is fetched once, by every run that passes the bundle-identifier check, and
\* before any validation or any other credential call.
C17_SingleAttempts ==
  /\ \A s \in RemoteSteps : Cardinality(Calls(s[1], s[2])) <= 1
  /\ \A i \in Idx : log[i].op = "credentialsExist" =>
       /\ i > 1 /\ log[i - 1].op = "getPublishInfo" /\ log[i - 1].res = "ok"
       /\ bundleIdentifier
       /\ \A h \in Idx : h < i => log[h].op \in PreludeOps
  /\ (PastFetch /\ bundleIdentifier /\ Calls("getPublishInfo", "none") # {}
        /\ \A i \in Calls("getPublishInfo", "none") : log[i].res = "ok")
       => Cardinality(Calls("credentialsExist", "none")) = 1
  /\ (pc = "credentialsExist") => (bundleIdentifier /\ Calls("credentialsExist", "none") = {})
  /\ \A j \in Idx : Step(log[j]) >= 1 =>
       \E i \in Idx : i < j /\ log[i].op = "credentialsExist" /\ log[i].res = "ok"

C17_Witness ==
  /\ pc = "done"
  /\ Cardinality(Calls("credentialsExist", "none")) = 1
  /\ Cardinality(Calls("validate", "appleId")) = 1
  /\ Cardinality(Calls("update", "cert")) = 1
  /\ Cardinality(Calls("fetchPushCertificates", "push")) = 1

Terminal == pc \in {"done", "failed"}

\* A step that stays at the same await and the same question is the re-prompt
\* of a rejected input.
OnlyRepromptRepeats ==
  (pc' = pc /\ question' = question) =>
    /\ Len(log') = Len(log) + 1
    /\ log'[Len(log')].op = "prompt"
    /\ log'[Len(log')].res = "rejected"
    /\ reprompts' = reprompts + 1

\* C18: when every question is eventually answered with an accepted input
\* and every call returns or fails, the run ends, done or failed; and the only
\* step that repeats is the re-prompt of a rejected input.
C18_RunTerminates ==
  /\ <>Terminal
  /\ [][OnlyRepromptRepeats]_vars
  /\ [][Terminal => FALSE]_vars

C18_Witness ==
  /\ pc = "done"
  /\ reprompts > 0
  /\ \E i \in Idx : log[i].op = "prompt" /\ log[i].res = "rejected"

IsPrompt(e, k, q) == e.op = "prompt" /\ e.kind = k /\ e.cand.q = q

FetchOp(k) == IF k = "cert" THEN "fetchAppleCertificates" ELSE "fetchPushCertificates"

ChoseGenerate(k) ==
  \E i \in Idx : IsPrompt(log[i], k, "manage") /\ log[i].cand.val = "true"

\* C19: when the operator lets the service manage the certificate or the push
\* certificate, the flow of that kind asks neither the path nor the password,
\* reads no file and makes no validate and no update call: its only call is
\* the one fetch call, made directly after the answer.
C19_GenerateOnlyFetches ==
  \A k \in {"cert", "push"} :
    /\ ChoseGenerate(k) =>
         /\ \A i \in Idx : log[i].kind = k =>
              \/ log[i].op = FlowOp(k)
              \/ IsPrompt(log[i], k, "manage")
              \/ log[i].op = FetchOp(k)
         /\ Cardinality(Calls(FetchOp(k), k)) <= 1
         /\ answers.pathToP12 = <<>> \/ pc \notin {"fetchAppleCertificates",
                                                  "fetchPushCertificates"}
         /\ remote[k] # "updated"
    /\ \A i \in Idx : log[i].op = FetchOp(k) =>
         /\ i > 1
         /\ IsPrompt(log[i - 1], k, "manage")
         /\ log[i - 1].cand.val = "true"
    /\ (pc = FetchOp(k)) => ChoseGenerate(k)

C19_Witness ==
  /\ pc = "done"
  /\ ChoseGenerate("cert") /\ ChoseGenerate("push")
  /\ Cardinality(Calls("fetchAppleCertificates", "cert")) = 1
  /\ Cardinality(Calls("fetchPushCertificates", "push")) = 1

UpdateApplied(k) ==
  \E i \in Idx : IsCandidateCall(log[i], "update", k) /\ log[i].res = "ok"

\* What the service stored for kind k when the run fetched the bundle.
FetchedValue(k) == IF existingCredentials[k] THEN "stored" ELSE "absent"

\* C20: a failed run rolls nothing back: at the failure the stored bundle
\* holds the update of every kind whose update call succeeded, among them
\* every earlier kind whose collection flow uploaded a candidate, and every
\* other kind's stored field is what the run fetched; the failing call is the
\* last call of the run.
C20_NoRollback ==
  (pc = "failed" /\ existingCredentials.fetched) =>
    /\ \A k \in Kinds :
         /\ UpdateApplied(k) => remote[k] = "updated"
         /\ ~UpdateApplied(k) => remote[k] = FetchedValue(k)
    /\ \A k \in Kinds :
         (Len(log) > 0 /\ Step(LastEvent) > KindStep(k)
            /\ \E i \in Idx : IsCandidateCall(log[i], "validate", k))
           => remote[k] = "updated"
    /\ \A i \in Idx : log[i].op = "update" => log[i].cand # NullCredentials

C20_Witness ==
  /\ pc = "failed"
  /\ LastEvent.op = "update" /\ LastEvent.kind = "push" /\ Threw(LastEvent)
  /\ remote["appleId"] = "updated"
  /\ remote["cert"] = "updated"
  /\ remote["push"] = "stored"
====
